---- MODULE Spec2Model ----
(***************************************************************************)
(* Model of plugins/adaptiveintroskip/skip_helper.py: the EmbySkipHelper   *)
(* client (connection configuration, episode lookup, chapter-marker        *)
(* upsert, total running time) and the keyword filters include_keyword and *)
(* exclude_keyword.                                                        *)
(*                                                                         *)
(* Python strings are sequences of characters (or of tokens, for URLs),    *)
(* dicts are functions whose DOMAIN is the set of keys present, None is    *)
(* the record None, and a value that may be None is wrapped by Some.       *)
(***************************************************************************)
EXTENDS Integers, Sequences, FiniteSets, TLC

VARIABLES
    base_url,     \* self.base_url: None or Some(token sequence)
    api_key,      \* self.api_key: None or Some(token sequence)
    headers,      \* self.headers: dict
    op,           \* the method in progress, "idle" between calls
    pc,           \* position inside update_intro / update_credits
    args,         \* arguments of the call in progress or last made
    old_tags,     \* local old_tags of update_intro / update_credits
    resp,         \* outcome of the first request of the call (what the server answered)
    sent,         \* requests the call has issued, in order
    ret,          \* what the last finished call returned
    raised,       \* "no", or why the last finished call went through its except branch
    path,         \* argument of the keyword filters
    keywords,     \* argument of the keyword filters
    inc_result,   \* result of include_keyword(path, keywords), once called
    exc_result    \* result of exclude_keyword(path, keywords), once called

clientVars == <<base_url, api_key, headers, op, pc, args, old_tags, resp, sent, ret, raised>>
kwVars == <<path, keywords, inc_result, exc_result>>
vars == <<base_url, api_key, headers, op, pc, args, old_tags, resp, sent, ret, raised,
          path, keywords, inc_result, exc_result>>

(***************************************************************************)
(* Bounds of the model.                                                    *)
(***************************************************************************)
MaxPathLen == 3
MaxKwLen == 4
MaxEpisodes == 2
MaxChapters == 2

(***************************************************************************)
(* Python values.                                                          *)
(***************************************************************************)
None == [none |-> TRUE]
Some(v) == [none |-> FALSE, val |-> v]

\* Python truthiness of an Optional[str]: None and "" are falsy.
Truthy(x) == x # None /\ x.val # <<>>

EmptyDict == [k \in {} |-> 0]

Comma == ","

StartsWith(s, p) == Len(s) >= Len(p) /\ SubSeq(s, 1, Len(p)) = p
EndsWith(s, p) == Len(s) >= Len(p) /\ SubSeq(s, Len(s) - Len(p) + 1, Len(s)) = p

\* all sequences over S of length at most n
SeqsUpTo(S, n) == UNION {[1..k -> S] : k \in 0..n}

\* a dict restricted to some of its keys (a response that lacks the other fields)
Restrict(f, D) == [k \in D |-> f[k]]

(***************************************************************************)
(* Connection configuration: __init__ and set_emby_server.                 *)
(***************************************************************************)
\* hosts and keys a caller or the settings can supply
HostValues == {None, Some(<<>>), Some(<<"emby">>), Some(<<"http", "://", "emby", "/">>)}
KeyValues == {None, Some(<<>>), Some(<<"k1">>), Some(<<"k2">>)}

Normalize(url) ==
    LET withSlash == IF EndsWith(url, <<"/">>) THEN url ELSE url \o <<"/">>
    IN  IF StartsWith(withSlash, <<"http">>) THEN withSlash
        ELSE <<"http", "://">> \o withSlash

HeadersFor(key) ==
    IF Truthy(key) THEN [k \in {"X-Emby-Token"} |-> key.val] ELSE EmptyDict

\* set_emby_server: the new (base_url, api_key, headers) of self.
\* settings_host / settings_key are settings.EMBY_HOST / settings.EMBY_API_KEY.
set_emby_server(self, host, key, settings_host, settings_key) ==
    LET h == IF ~Truthy(host) THEN settings_host ELSE host
        k == IF ~Truthy(key) THEN settings_key ELSE key
    IN  IF h = None
        THEN \* early return: self.headers is left as it was
             [base_url |-> None, api_key |-> k, headers |-> self.headers]
        ELSE [base_url |-> Some(Normalize(h.val)), api_key |-> k,
              headers |-> HeadersFor(k)]

\* __init__: the fields after construction
init_self(host, key, settings_host, settings_key) ==
    LET blank == [base_url |-> None, api_key |-> None, headers |-> EmptyDict]
    IN  IF Truthy(host) \/ Truthy(key)
        THEN set_emby_server(blank, host, key, settings_host, settings_key)
        ELSE blank

(***************************************************************************)
(* Requests and what the server answers.                                   *)
(***************************************************************************)
ItemIds == {7}
SeasonIds == {1, 2}
EpisodeIds == {1, 2}

\* requests.get(url, headers=..., params=...) as the server sees it
Request(endpoint, item_id, query, hdrs, params) ==
    [endpoint |-> endpoint, base |-> base_url.val, item_id |-> item_id,
     query |-> query, headers |-> hdrs, params |-> params]

\* f'{self.base_url}...' with base_url None has no scheme: requests.get raises
\* before anything is sent; otherwise the request goes out and may still raise
RequestOutcomes == IF base_url = None THEN {"raise"} ELSE {"ok", "raise"}
Issue(log, req) == IF base_url = None THEN log ELSE Append(log, req)

Raise == [status |-> "raise"]
Ok(body) == [status |-> "ok", body |-> body]

\* --- episode listing ---------------------------------------------------
EpisodeFields == {"Id", "IndexNumber", "ParentIndexNumber"}
\* the shape of one episode of a listing: its numbers and the field it lacks, if any
EpisodeShapes ==
    [IndexNumber : {1, 2, 3}, ParentIndexNumber : {1, 2},
     lacks : {"nothing"} \cup EpisodeFields]
EpisodeDict(i, shape) ==
    Restrict([Id |-> 100 + i, IndexNumber |-> shape.IndexNumber,
              ParentIndexNumber |-> shape.ParentIndexNumber],
             EpisodeFields \ {shape.lacks})
Listing(shapes) == [i \in 1..Len(shapes) |-> EpisodeDict(i, shapes[i])]
\* response.json() of Shows/{item_id}/Episodes
EpisodeResponses ==
    {Raise, Ok(EmptyDict)}
        \cup {Ok([Items |-> Listing(shapes)]) : shapes \in SeqsUpTo(EpisodeShapes, MaxEpisodes)}

Has(d, k) == k \in DOMAIN d

Completed(v) == [exc |-> FALSE, val |-> v]
Exception(why) == [exc |-> TRUE, why |-> why]

\* the comparison of get_next_episode_ids with > in place of >=
NextMatchesStrict(episode, season_id, episode_id) ==
    IF episode["IndexNumber"] > episode_id
    THEN season_id = episode["ParentIndexNumber"]
    ELSE FALSE

\* episode['IndexNumber'] >= episode_id and season_id == episode['ParentIndexNumber']
NextMatches(episode, season_id, episode_id) ==
    IF episode["IndexNumber"] >= episode_id
    THEN season_id = episode["ParentIndexNumber"]
    ELSE FALSE

\* the keys the condition of get_next_episode_ids reads on this episode
NextReads(episode, episode_id) ==
    IF ~Has(episode, "IndexNumber") THEN {"IndexNumber"}
    ELSE IF episode["IndexNumber"] >= episode_id
         THEN {"IndexNumber", "ParentIndexNumber"}
         ELSE {"IndexNumber"}

\* the for loop of get_next_episode_ids over episodes_info['Items']
RECURSIVE NextLoop(_, _, _, _)
NextLoop(items, season_id, episode_id, ids) ==
    IF items = <<>> THEN Completed(ids)
    ELSE LET episode == Head(items)
         IN  IF ~(NextReads(episode, episode_id) \subseteq DOMAIN episode) THEN Exception("field")
             ELSE IF NextMatches(episode, season_id, episode_id)
                  THEN IF ~Has(episode, "Id") THEN Exception("field")
                       ELSE NextLoop(Tail(items), season_id, episode_id,
                                     Append(ids, episode["Id"]))
                  ELSE NextLoop(Tail(items), season_id, episode_id, ids)

RetNone == [kind |-> "None"]
RetList(ids) == [kind |-> "list", ids |-> ids]
RetInt(n) == [kind |-> "int", num |-> n]

\* body of get_next_episode_ids given the server's answer
get_next_episode_ids(response, season_id, episode_id) ==
    IF response.status = "raise" THEN Exception("request")
    ELSE IF ~Has(response.body, "Items") THEN Exception("field")
    ELSE NextLoop(response.body["Items"], season_id, episode_id, <<>>)

\* the for loop of get_current_video_item_id keeping the last match instead of the first
RECURSIVE CurrentLoopLast(_, _, _)
CurrentLoopLast(items, season_id, episode_id) ==
    IF items = <<>> THEN Completed(0 - 1)
    ELSE LET episode == items[Len(items)]
         IN  IF ~Has(episode, "IndexNumber") THEN Exception("field")
             ELSE IF episode["IndexNumber"] # episode_id
                  THEN CurrentLoopLast(SubSeq(items, 1, Len(items) - 1), season_id, episode_id)
             ELSE IF ~Has(episode, "ParentIndexNumber") THEN Exception("field")
             ELSE IF episode["ParentIndexNumber"] # season_id
                  THEN CurrentLoopLast(SubSeq(items, 1, Len(items) - 1), season_id, episode_id)
             ELSE IF ~Has(episode, "Id") THEN Exception("field")
             ELSE Completed(episode["Id"])

\* the for loop of get_current_video_item_id, returning at the first match
RECURSIVE CurrentLoop(_, _, _)
CurrentLoop(items, season_id, episode_id) ==
    IF items = <<>> THEN Completed(0 - 1)
    ELSE LET episode == Head(items)
         IN  IF ~Has(episode, "IndexNumber") THEN Exception("field")
             ELSE IF episode["IndexNumber"] # episode_id
                  THEN CurrentLoop(Tail(items), season_id, episode_id)
             ELSE IF ~Has(episode, "ParentIndexNumber") THEN Exception("field")
             ELSE IF episode["ParentIndexNumber"] # season_id
                  THEN CurrentLoop(Tail(items), season_id, episode_id)
             ELSE IF ~Has(episode, "Id") THEN Exception("field")
             ELSE Completed(episode["Id"])

\* body of get_current_video_item_id given the server's answer
get_current_video_item_id(response, season_id, episode_id) ==
    IF response.status = "raise" THEN Exception("request")
    ELSE IF ~Has(response.body, "Items") THEN Exception("field")
    ELSE CurrentLoop(response.body["Items"], season_id, episode_id)

\* --- playback info -----------------------------------------------------
TicksPerSecond == 10000000
\* response.json() of emby/Items/{item_id}/PlaybackInfo
PlaybackResponses ==
    {Raise, Ok(EmptyDict), Ok([MediaSources |-> <<>>]),
     Ok([MediaSources |-> <<EmptyDict>>]),
     Ok([MediaSources |-> <<[RunTimeTicks |-> 1200000000]>>]),
     Ok([MediaSources |-> <<[RunTimeTicks |-> 25005000], [RunTimeTicks |-> 1]>>])}

\* total_time_ticks / 10000000: the quotient, kept exact as whole seconds and
\* the remaining ticks
RetSeconds(ticks) ==
    [kind |-> "float", whole |-> ticks \div TicksPerSecond, ticks |-> ticks % TicksPerSecond]

\* body of get_total_time given the server's answer; val is what it returns
\* when no exception is raised
get_total_time(response) ==
    IF response.status = "raise" THEN Exception("request")
    ELSE IF ~Has(response.body, "MediaSources") THEN Exception("field")
    ELSE IF response.body["MediaSources"] = <<>> THEN Completed(RetInt(0))
    ELSE LET video_info == response.body["MediaSources"][1]
         IN  IF ~Has(video_info, "RunTimeTicks") THEN Exception("field")
             ELSE Completed(RetSeconds(video_info["RunTimeTicks"]))

\* --- chapter markers ---------------------------------------------------
MarkerTypes == {<<"Intro", "Start">>, <<"Intro", "End">>, <<"Credits", "Start">>, <<"Chapter">>}
ChapterFields == {"Index", "MarkerType"}
ChapterShapes == [MarkerType : MarkerTypes, lacks : {"nothing"} \cup ChapterFields]
ChapterDict(i, shape) ==
    Restrict([Index |-> i - 1, MarkerType |-> shape.MarkerType],
             ChapterFields \ {shape.lacks})
ChapterList(shapes) == [i \in 1..Len(shapes) |-> ChapterDict(i, shapes[i])]
\* .json() of emby/chapter_api/get_chapters
ChapterResponses ==
    {Raise, Ok(EmptyDict)}
        \cup {Ok([chapters |-> ChapterList(shapes)]) : shapes \in SeqsUpTo(ChapterShapes, MaxChapters)}

\* seconds arguments of update_intro / update_credits, in milliseconds; None
\* stands for a value datetime.utcfromtimestamp rejects
TimeValues == {None, Some(85500), Some(3725000)}

\* a copy-paste slip: both methods filter on 'Intro'
MarkerPrefixIntroOnly(method) == <<"Intro">>

\* the argument of startswith in the old_tags comprehension of each method
MarkerPrefix(method) ==
    IF method = "update_intro" THEN <<"Intro">> ELSE <<"Credits">>

\* the comprehension with chapter.get('MarkerType', '') in place of chapter['MarkerType']
RECURSIVE OldTagsLenient(_, _, _)
OldTagsLenient(chapters, prefix, tags) ==
    IF chapters = <<>> THEN Completed(tags)
    ELSE LET chapter == Head(chapters)
         IN  IF ~Has(chapter, "MarkerType") THEN OldTagsLenient(Tail(chapters), prefix, tags)
             ELSE IF StartsWith(chapter["MarkerType"], prefix)
                  THEN IF ~Has(chapter, "Index") THEN Exception("field")
                       ELSE OldTagsLenient(Tail(chapters), prefix,
                                           Append(tags, chapter["Index"]))
                  ELSE OldTagsLenient(Tail(chapters), prefix, tags)

\* [chapter['Index'] for chapter in chapter_info['chapters']
\*  if chapter['MarkerType'].startswith(prefix)]: the condition is evaluated
\* first, chapter['Index'] only for a chapter that passes it
RECURSIVE OldTags(_, _, _)
OldTags(chapters, prefix, tags) ==
    IF chapters = <<>> THEN Completed(tags)
    ELSE LET chapter == Head(chapters)
         IN  IF ~Has(chapter, "MarkerType") THEN Exception("field")
             ELSE IF StartsWith(chapter["MarkerType"], prefix)
                  THEN IF ~Has(chapter, "Index") THEN Exception("field")
                       ELSE OldTags(Tail(chapters), prefix, Append(tags, chapter["Index"]))
                  ELSE OldTags(Tail(chapters), prefix, tags)

\* the first statement of update_intro / update_credits given the server's answer
ReadOldTags(response, method) ==
    IF response.status = "raise" THEN Exception("request")
    ELSE IF ~Has(response.body, "chapters") THEN Exception("field")
    ELSE OldTags(response.body["chapters"], MarkerPrefix(method), <<>>)

\* str(n) for n >= 0
DigitChar(d) == <<"0", "1", "2", "3", "4", "5", "6", "7", "8", "9">>[d + 1]
RECURSIVE str(_)
str(n) == IF n < 10 THEN <<DigitChar(n)>> ELSE str(n \div 10) \o <<DigitChar(n % 10)>>

\* s.zfill(width)
RECURSIVE zfill(_, _)
zfill(s, width) == IF Len(s) >= width THEN s ELSE zfill(<<"0">> \o s, width)

\* ','.join(map(str, tags))
RECURSIVE JoinStr(_)
JoinStr(tags) ==
    IF tags = <<>> THEN <<>>
    ELSE IF Len(tags) = 1 THEN str(tags[1])
    ELSE str(tags[1]) \o <<Comma>> \o JoinStr(Tail(tags))

\* format_time(seconds), seconds given in milliseconds and below one day:
\* str(timedelta) is H:MM:SS[.ffffff]; the part before the dot is kept and the
\* first three of the six microsecond digits are appended
format_time(ms) ==
    LET hours == ms \div 3600000
        minutes == (ms \div 60000) % 60
        seconds == (ms \div 1000) % 60
        microseconds == (ms % 1000) * 1000
    IN  str(hours) \o <<":">> \o zfill(str(minutes), 2) \o <<":">>
            \o zfill(str(seconds), 2) \o <<".">>
            \o SubSeq(zfill(str(microseconds), 6), 1, 3)

GetChaptersRequest(item_id) ==
    Request("emby/chapter_api/get_chapters", item_id, [id |-> item_id], headers, EmptyDict)
RemoveRequest(item_id, tags) ==
    Request("emby/chapter_api/update_chapters", item_id,
            [id |-> item_id, index_list |-> JoinStr(tags), action |-> "remove"],
            headers, EmptyDict)
AddRequest(item_id, name, type, time) ==
    Request("emby/chapter_api/update_chapters", item_id,
            [id |-> item_id, action |-> "add", name |-> name, type |-> type,
             time |-> time],
            headers, EmptyDict)

\* a slip that drops the removal: the adds follow get_chapters directly
AddsWithoutRemove(method) ==
    IF method = "update_intro" THEN "add_intro_start" ELSE "add_credits_start"

\* the statement that follows the old_tags comprehension: the remove request
AfterOldTags(method) == "remove"

\* the statement that follows the remove request: the first add of the method
AfterRemove(method) ==
    IF method = "update_intro" THEN "add_intro_start" ELSE "add_credits_start"

\* a slip in one except branch: get_current_video_item_id returns None
FailureValueNoneForCurrent(method) ==
    IF method = "get_next_episode_ids" THEN RetList(<<>>)
    ELSE IF method = "get_total_time" THEN RetInt(0)
    ELSE RetNone

\* what the except branch of each method returns
FailureValue(method) ==
    IF method = "get_next_episode_ids" THEN RetList(<<>>)
    ELSE IF method = "get_current_video_item_id" THEN RetInt(0 - 1)
    ELSE IF method = "get_total_time" THEN RetInt(0)
    ELSE RetNone

RetTime(ms) == [kind |-> "seconds", ms |-> ms]

(***************************************************************************)
(* Keyword filters.                                                        *)
(***************************************************************************)
PathChars == {"a", "b"}
KwChars == {"a", "b", Comma}

\* str.split(','): the segments between commas; never an empty list
RECURSIVE SplitAcc(_, _, _)
SplitAcc(s, cur, acc) ==
    IF s = <<>> THEN Append(acc, cur)
    ELSE IF Head(s) = Comma THEN SplitAcc(Tail(s), <<>>, Append(acc, cur))
    ELSE SplitAcc(Tail(s), Append(cur, Head(s)), acc)

split(s) == SplitAcc(s, <<>>, <<>>)

\* Python's `keyword in path` on strings: substring test
Contains(p, kw) ==
    \E i \in 0..(Len(p) - Len(kw)) : SubSeq(p, i + 1, i + Len(kw)) = kw

\* the for loop of include_keyword, breaking at the first match
RECURSIVE IncludeLoop(_, _)
IncludeLoop(p, keyword_list) ==
    IF keyword_list = <<>> THEN [flag |-> FALSE, msg |-> <<>>]
    ELSE IF Contains(p, Head(keyword_list))
         THEN [flag |-> TRUE, msg |-> Head(keyword_list)]
         ELSE IncludeLoop(p, Tail(keyword_list))

include_keyword(p, kws) ==
    LET keyword_list == split(kws)
        r == IncludeLoop(p, keyword_list)
    IN  IF r.flag THEN [ret |-> TRUE, msg |-> r.msg]
        ELSE [ret |-> FALSE, msg |-> <<>>]

\* the for loop of exclude_keyword, returning at the first match
RECURSIVE ExcludeLoop(_, _)
ExcludeLoop(p, keyword_list) ==
    IF keyword_list = <<>> THEN [ret |-> TRUE, msg |-> <<>>]
    ELSE IF Contains(p, Head(keyword_list))
         THEN [ret |-> FALSE, msg |-> Head(keyword_list)]
         ELSE ExcludeLoop(p, Tail(keyword_list))

\* exclude_keyword without the `if keywords else []` guard
exclude_keyword_unguarded(p, kws) == ExcludeLoop(p, split(kws))

exclude_keyword(p, kws) ==
    LET keyword_list == IF kws # <<>> THEN split(kws) ELSE <<>>
    IN  ExcludeLoop(p, keyword_list)

NotCalled == [called |-> FALSE]
Called(r) == [called |-> TRUE, ret |-> r.ret, msg |-> r.msg]

(***************************************************************************)
(* Initial states.                                                         *)
(***************************************************************************)
NoArgs == [item_id |-> 0]
NoResp == [status |-> "none"]

ClientInit ==
    /\ \E host \in HostValues, key \in KeyValues,
          settings_host \in HostValues, settings_key \in KeyValues :
          LET self == init_self(host, key, settings_host, settings_key)
          IN  /\ base_url = self.base_url
              /\ api_key = self.api_key
              /\ headers = self.headers
    /\ op = "idle"
    /\ pc = "idle"
    /\ args = NoArgs
    /\ old_tags = <<>>
    /\ resp = NoResp
    /\ sent = <<>>
    /\ ret = RetNone
    /\ raised = "no"

KwIdle ==
    /\ path = <<>>
    /\ keywords = <<>>
    /\ inc_result = NotCalled
    /\ exc_result = NotCalled

Init == ClientInit /\ KwIdle

\* the keyword filters take any path and any keywords string
InitKw ==
    /\ base_url = None
    /\ api_key = None
    /\ headers = EmptyDict
    /\ op = "idle"
    /\ pc = "idle"
    /\ args = NoArgs
    /\ old_tags = <<>>
    /\ resp = NoResp
    /\ sent = <<>>
    /\ ret = RetNone
    /\ raised = "no"
    /\ path \in SeqsUpTo(PathChars, MaxPathLen)
    /\ keywords \in SeqsUpTo(KwChars, MaxKwLen)
    /\ inc_result = NotCalled
    /\ exc_result = NotCalled

(***************************************************************************)
(* Actions.                                                                *)
(***************************************************************************)
SetEmbyServer ==
    /\ op = "idle"
    /\ \E host \in HostValues, key \in KeyValues,
          settings_host \in HostValues, settings_key \in KeyValues :
          LET self == [base_url |-> base_url, api_key |-> api_key, headers |-> headers]
              new == set_emby_server(self, host, key, settings_host, settings_key)
          IN  /\ base_url' = new.base_url
              /\ api_key' = new.api_key
              /\ headers' = new.headers
    /\ UNCHANGED <<op, pc, args, old_tags, resp, sent, ret, raised>>
    /\ UNCHANGED kwVars

CallIncludeKeyword ==
    /\ inc_result' = Called(include_keyword(path, keywords))
    /\ UNCHANGED <<path, keywords, exc_result>>
    /\ UNCHANGED clientVars

CallExcludeKeyword ==
    /\ exc_result' = Called(exclude_keyword(path, keywords))
    /\ UNCHANGED <<path, keywords, inc_result>>
    /\ UNCHANGED clientVars

GetNextEpisodeIds ==
    /\ op = "idle"
    /\ \E item_id \in ItemIds, season_id \in SeasonIds, episode_id \in EpisodeIds,
          response \in EpisodeResponses :
          LET r == get_next_episode_ids(response, season_id, episode_id)
          IN  /\ response.status \in RequestOutcomes
              /\ args' = [item_id |-> item_id, season_id |-> season_id,
                          episode_id |-> episode_id]
              /\ resp' = response
              /\ sent' = Issue(<<>>, Request("Shows/Episodes", item_id, EmptyDict,
                                             headers, EmptyDict))
              /\ ret' = IF r.exc THEN FailureValue("get_next_episode_ids") ELSE RetList(r.val)
              /\ raised' = IF r.exc THEN r.why ELSE "no"
    /\ op' = "get_next_episode_ids"
    /\ pc' = "returned"
    /\ UNCHANGED <<base_url, api_key, headers, old_tags>>
    /\ UNCHANGED kwVars

GetCurrentVideoItemId ==
    /\ op = "idle"
    /\ \E item_id \in ItemIds, season_id \in SeasonIds, episode_id \in EpisodeIds,
          response \in EpisodeResponses :
          LET r == get_current_video_item_id(response, season_id, episode_id)
          IN  /\ response.status \in RequestOutcomes
              /\ args' = [item_id |-> item_id, season_id |-> season_id,
                          episode_id |-> episode_id]
              /\ resp' = response
              /\ sent' = Issue(<<>>, Request("Shows/Episodes", item_id, EmptyDict,
                                             headers, EmptyDict))
              /\ ret' = IF r.exc THEN FailureValue("get_current_video_item_id")
                                  ELSE RetInt(r.val)
              /\ raised' = IF r.exc THEN r.why ELSE "no"
    /\ op' = "get_current_video_item_id"
    /\ pc' = "returned"
    /\ UNCHANGED <<base_url, api_key, headers, old_tags>>
    /\ UNCHANGED kwVars

GetTotalTime ==
    /\ op = "idle"
    /\ \E item_id \in ItemIds, response \in PlaybackResponses :
          LET r == get_total_time(response)
              req_headers == IF headers # EmptyDict THEN headers ELSE EmptyDict
              params == IF Truthy(api_key) THEN [k \in {"api_key"} |-> api_key.val]
                        ELSE EmptyDict
          IN  /\ response.status \in RequestOutcomes
              /\ args' = [item_id |-> item_id]
              /\ resp' = response
              /\ sent' = Issue(<<>>, Request("Items/PlaybackInfo", item_id, EmptyDict,
                                             req_headers, params))
              /\ ret' = IF r.exc THEN FailureValue("get_total_time") ELSE r.val
              /\ raised' = IF r.exc THEN r.why ELSE "no"
    /\ op' = "get_total_time"
    /\ pc' = "returned"
    /\ UNCHANGED <<base_url, api_key, headers, old_tags>>
    /\ UNCHANGED kwVars

\* the except branch of update_intro / update_credits
Fail(why) ==
    /\ pc' = "returned"
    /\ ret' = FailureValue(op)
    /\ raised' = why

UpdateIntro ==
    /\ op = "idle"
    /\ \E item_id \in ItemIds, intro_end \in TimeValues :
          args' = [item_id |-> item_id, time |-> intro_end]
    /\ op' = "update_intro"
    /\ pc' = "get_chapters"
    /\ UNCHANGED <<base_url, api_key, headers, old_tags, resp, sent, ret, raised>>
    /\ UNCHANGED kwVars

UpdateCredits ==
    /\ op = "idle"
    /\ \E item_id \in ItemIds, credits_start \in TimeValues :
          args' = [item_id |-> item_id, time |-> credits_start]
    /\ op' = "update_credits"
    /\ pc' = "get_chapters"
    /\ UNCHANGED <<base_url, api_key, headers, old_tags, resp, sent, ret, raised>>
    /\ UNCHANGED kwVars

\* get_chapters and the old_tags comprehension
GetChapters ==
    /\ pc = "get_chapters"
    /\ \E response \in ChapterResponses :
          LET r == ReadOldTags(response, op)
          IN  /\ response.status \in RequestOutcomes
              /\ resp' = response
              /\ sent' = Issue(sent, GetChaptersRequest(args.item_id))
              /\ IF r.exc
                 THEN Fail(r.why) /\ UNCHANGED old_tags
                 ELSE /\ old_tags' = r.val
                      /\ pc' = AfterOldTags(op)
                      /\ UNCHANGED <<ret, raised>>
    /\ UNCHANGED <<base_url, api_key, headers, op, args>>
    /\ UNCHANGED kwVars

\* update_chapters ... action=remove
RemoveOld ==
    /\ pc = "remove"
    /\ \E outcome \in RequestOutcomes :
          /\ sent' = Issue(sent, RemoveRequest(args.item_id, old_tags))
          /\ IF outcome = "raise"
             THEN Fail("request")
             ELSE pc' = AfterRemove(op) /\ UNCHANGED <<ret, raised>>
    /\ UNCHANGED <<base_url, api_key, headers, op, args, old_tags, resp>>
    /\ UNCHANGED kwVars

\* update_chapters ... action=add ... type=intro_start&time=00:00:00.000
AddIntroStart ==
    /\ pc = "add_intro_start"
    /\ \E outcome \in RequestOutcomes :
          /\ sent' = Issue(sent, AddRequest(args.item_id, "intro", "intro_start",
                                            <<"0", "0", ":", "0", "0", ":", "0", "0",
                                              ".", "0", "0", "0">>))
          /\ IF outcome = "raise"
             THEN Fail("request")
             ELSE pc' = "add_intro_end" /\ UNCHANGED <<ret, raised>>
    /\ UNCHANGED <<base_url, api_key, headers, op, args, old_tags, resp>>
    /\ UNCHANGED kwVars

\* update_chapters ... action=add ... type=intro_end&time={format_time(intro_end)}
AddIntroEnd ==
    /\ pc = "add_intro_end"
    /\ IF args.time = None
       THEN \* format_time raises while the URL is built: nothing is sent
            Fail("argument") /\ UNCHANGED sent
       ELSE \E outcome \in RequestOutcomes :
               /\ sent' = Issue(sent, AddRequest(args.item_id, "intro_end", "intro_end",
                                                 format_time(args.time.val)))
               /\ IF outcome = "raise"
                  THEN Fail("request")
                  ELSE /\ pc' = "returned"
                       /\ ret' = RetTime(args.time.val)
                       /\ UNCHANGED raised
    /\ UNCHANGED <<base_url, api_key, headers, op, args, old_tags, resp>>
    /\ UNCHANGED kwVars

\* update_chapters ... action=add ... type=credits_start&time={format_time(credits_start)}
AddCreditsStart ==
    /\ pc = "add_credits_start"
    /\ IF args.time = None
       THEN Fail("argument") /\ UNCHANGED sent
       ELSE \E outcome \in RequestOutcomes :
               /\ sent' = Issue(sent, AddRequest(args.item_id, "credits", "credits_start",
                                                 format_time(args.time.val)))
               /\ IF outcome = "raise"
                  THEN Fail("request")
                  ELSE /\ pc' = "returned"
                       /\ ret' = RetTime(args.time.val)
                       /\ UNCHANGED raised
    /\ UNCHANGED <<base_url, api_key, headers, op, args, old_tags, resp>>
    /\ UNCHANGED kwVars

\* the caller takes the returned value; the locals of the call are gone
Return ==
    /\ pc = "returned"
    /\ op' = "idle"
    /\ pc' = "idle"
    /\ args' = NoArgs
    /\ old_tags' = <<>>
    /\ resp' = NoResp
    /\ sent' = <<>>
    /\ ret' = RetNone
    /\ raised' = "no"
    /\ UNCHANGED <<base_url, api_key, headers>>
    /\ UNCHANGED kwVars

Next ==
    \/ SetEmbyServer
    \/ GetNextEpisodeIds
    \/ GetCurrentVideoItemId
    \/ GetTotalTime
    \/ UpdateIntro
    \/ UpdateCredits
    \/ GetChapters
    \/ RemoveOld
    \/ AddIntroStart
    \/ AddIntroEnd
    \/ AddCreditsStart
    \/ Return

NextKw ==
    \/ CallIncludeKeyword
    \/ CallExcludeKeyword

Spec == Init /\ [][Next]_vars
SpecKw == InitKw /\ [][NextKw]_vars

(***************************************************************************)
(* Properties.                                                             *)
(***************************************************************************)
Returned == pc = "returned"
UpdateOps == {"update_intro", "update_credits"}
Min(S) == CHOOSE x \in S : \A y \in S : x <= y
IsPrefix(s, t) == Len(s) <= Len(t) /\ SubSeq(t, 1, Len(s)) = s

\* C1 (as amended): when a request of a method raises, or the lookup of a
\* response field the method reads fails, the method returns (nothing
\* propagates) and the value is the method's failure value: the empty list for
\* get_next_episode_ids, -1 for get_current_video_item_id, None for update_intro
\* and update_credits, and 0 for get_total_time. A request that raised or a
\* response without its top-level field always counts as such a failure.
C1_FailureReturnsSentinel ==
    Returned =>
        /\ (resp.status = "raise" \/ (resp.status = "ok" /\ resp.body = EmptyDict))
               => raised \in {"request", "field"}
        /\ raised \in {"request", "field"} =>
               /\ op = "get_next_episode_ids" => ret = [kind |-> "list", ids |-> <<>>]
               /\ op = "get_current_video_item_id" => ret = [kind |-> "int", num |-> 0 - 1]
               /\ op \in UpdateOps => ret = [kind |-> "None"]
               /\ op = "get_total_time" => ret = [kind |-> "int", num |-> 0]

\* C1 as stated: after such a failure the returned value is the empty list, -1 or None.
C1_Original ==
    (Returned /\ raised \in {"request", "field"}) =>
        \/ ret = [kind |-> "list", ids |-> <<>>]
        \/ ret = [kind |-> "int", num |-> 0 - 1]
        \/ ret = [kind |-> "None"]

C1_Witness ==
    /\ Returned
    /\ op = "get_total_time"
    /\ resp.status = "ok"
    /\ raised = "field"
    /\ ret = [kind |-> "int", num |-> 0]

ReqKind(req) ==
    IF req.endpoint = "emby/chapter_api/get_chapters" THEN "get_chapters"
    ELSE IF req.query.action = "remove" THEN "remove"
    ELSE req.query.type
Kinds(log) == [i \in 1..Len(log) |-> ReqKind(log[i])]
FullOrder(method) ==
    IF method = "update_intro"
    THEN <<"get_chapters", "remove", "intro_start", "intro_end">>
    ELSE <<"get_chapters", "remove", "credits_start">>

\* C2: at every point of a run of update_intro or update_credits the requests
\* issued so far are an initial part of get_chapters, remove, then the adds
\* (intro_start, intro_end for update_intro; credits_start for update_credits),
\* so no add precedes the remove and the remove is issued once; a run that
\* returns its input value has issued the whole sequence.
C2_RequestOrder ==
    op \in UpdateOps =>
        /\ IsPrefix(Kinds(sent), FullOrder(op))
        /\ (Returned /\ ret # [kind |-> "None"]) =>
               /\ ret = [kind |-> "seconds", ms |-> args.time.val]
               /\ Kinds(sent) = FullOrder(op)

C2_Witness ==
    /\ Returned
    /\ op = "update_intro"
    /\ ret = [kind |-> "seconds", ms |-> 85500]
    /\ Kinds(sent) = <<"get_chapters", "remove", "intro_start", "intro_end">>

\* the comma-separated list of keywords a keywords string denotes: its
\* segments between commas, and no keyword at all for the empty string
KeywordsOf(kws) == IF kws = <<>> THEN <<>> ELSE split(kws)
MatchedAt(p, kws) == {i \in 1..Len(KeywordsOf(kws)) : Contains(p, KeywordsOf(kws)[i])}
FirstMatched(p, kws) == KeywordsOf(kws)[Min(MatchedAt(p, kws))]

\* C3: include_keyword returns ret = TRUE exactly when path contains a keyword
\* of the list, with msg the first such keyword in list order, and ret = FALSE
\* with msg = '' otherwise, for every keywords string, the empty one included.
C3_IncludeKeyword ==
    inc_result.called =>
        IF MatchedAt(path, keywords) # {}
        THEN inc_result.ret /\ inc_result.msg = FirstMatched(path, keywords)
        ELSE ~inc_result.ret /\ inc_result.msg = <<>>

\* C4: exclude_keyword returns ret = TRUE with msg = '' exactly when path
\* contains none of the keywords of the list (so for the empty keywords string),
\* and otherwise ret = FALSE with msg the first keyword in list order that path
\* contains.
C4_ExcludeKeyword ==
    exc_result.called =>
        IF MatchedAt(path, keywords) = {}
        THEN exc_result.ret /\ exc_result.msg = <<>>
        ELSE ~exc_result.ret /\ exc_result.msg = FirstMatched(path, keywords)

C4_Witness ==
    /\ exc_result.called
    /\ keywords = <<"a", ",", "b">>
    /\ path = <<"b", "b">>
    /\ ~exc_result.ret
    /\ exc_result.msg = <<"b">>

\* C5: for every path and keywords string the ret of include_keyword is the
\* negation of the ret of exclude_keyword and both report the same msg.
C5_Complementary ==
    (inc_result.called /\ exc_result.called) =>
        /\ inc_result.ret = ~exc_result.ret
        /\ inc_result.msg = exc_result.msg

\* the Index values C6 expects in the remove request: those of the fetched
\* chapters whose MarkerType starts with the prefix, in response order
RECURSIVE IndexesOf(_, _)
IndexesOf(chapters, prefix) ==
    IF chapters = <<>> THEN <<>>
    ELSE LET rest == IndexesOf(Tail(chapters), prefix)
         IN  IF StartsWith(Head(chapters)["MarkerType"], prefix)
             THEN <<Head(chapters)["Index"]>> \o rest
             ELSE rest

\* C6: the remove request of update_intro lists exactly the Index values of the
\* fetched chapters whose MarkerType starts with 'Intro', in response order, and
\* that of update_credits exactly those whose MarkerType starts with 'Credits';
\* the remove request is issued whatever the list, the empty one included: no
\* add is reached without it.
C6_RemoveListsMatchingMarkers ==
    op \in UpdateOps =>
        /\ pc \in {"add_intro_start", "add_intro_end", "add_credits_start"} => Len(sent) >= 2
        /\ Len(sent) >= 2 =>
               /\ sent[2].endpoint = "emby/chapter_api/update_chapters"
               /\ sent[2].query.action = "remove"
               /\ sent[2].query.index_list =
                      JoinStr(IndexesOf(resp.body["chapters"],
                                        IF op = "update_intro" THEN <<"Intro">>
                                        ELSE <<"Credits">>))

C6_Witness ==
    /\ op = "update_credits"
    /\ Len(sent) >= 2
    /\ Len(resp.body["chapters"]) = 2
    /\ resp.body["chapters"][1]["MarkerType"] = <<"Intro", "Start">>
    /\ sent[2].query.index_list = <<"1">>

WellFormedListing ==
    /\ resp.status = "ok"
    /\ Has(resp.body, "Items")
    /\ \A i \in 1..Len(resp.body["Items"]) : DOMAIN resp.body["Items"][i] = EpisodeFields

\* the Ids of the episodes of a well-formed listing that are in season season_id
\* and numbered episode_id or later, in response order
RECURSIVE WantedIds(_, _, _)
WantedIds(items, season_id, episode_id) ==
    IF items = <<>> THEN <<>>
    ELSE LET e == Head(items)
             rest == WantedIds(Tail(items), season_id, episode_id)
         IN  IF e["ParentIndexNumber"] = season_id /\ e["IndexNumber"] >= episode_id
             THEN <<e["Id"]>> \o rest
             ELSE rest

\* C7: on a listing fetched successfully (the request returned and every
\* episode carries Id, IndexNumber and ParentIndexNumber) get_next_episode_ids
\* returns the Ids of exactly the episodes whose ParentIndexNumber equals
\* season_id and whose IndexNumber is at least episode_id, in response order.
C7_NextEpisodeIds ==
    (Returned /\ op = "get_next_episode_ids" /\ WellFormedListing) =>
        ret = [kind |-> "list",
               ids |-> WantedIds(resp.body["Items"], args.season_id, args.episode_id)]

C7_Witness ==
    /\ Returned
    /\ op = "get_next_episode_ids"
    /\ WellFormedListing
    /\ args.episode_id = 1
    /\ Len(resp.body["Items"]) = 2
    /\ resp.body["Items"][1]["IndexNumber"] = 2
    /\ resp.body["Items"][2]["IndexNumber"] = 1
    /\ ret = [kind |-> "list", ids |-> <<101, 102>>]

\* C8: on a listing fetched successfully get_current_video_item_id returns the
\* Id of the first episode in response order whose IndexNumber equals
\* episode_id and whose ParentIndexNumber equals season_id, returns -1 exactly
\* when there is none, and a value other than -1 is a member of the list
\* get_next_episode_ids returns for the same arguments and response.
C8_CurrentVideoItemId ==
    (Returned /\ op = "get_current_video_item_id" /\ WellFormedListing) =>
        LET items == resp.body["Items"]
            matching == {i \in 1..Len(items) :
                            /\ items[i]["IndexNumber"] = args.episode_id
                            /\ items[i]["ParentIndexNumber"] = args.season_id}
            next_ids == get_next_episode_ids(resp, args.season_id, args.episode_id)
        IN  /\ ret.kind = "int"
            /\ (matching = {}) <=> (ret.num = 0 - 1)
            /\ matching # {} => ret.num = items[Min(matching)]["Id"]
            /\ ret.num # 0 - 1 =>
                   /\ ~next_ids.exc
                   /\ \E j \in 1..Len(next_ids.val) : next_ids.val[j] = ret.num

C8_Witness ==
    /\ Returned
    /\ op = "get_current_video_item_id"
    /\ WellFormedListing
    /\ Len(resp.body["Items"]) = 2
    /\ \A i \in 1..2 : /\ resp.body["Items"][i]["IndexNumber"] = args.episode_id
                       /\ resp.body["Items"][i]["ParentIndexNumber"] = args.season_id
    /\ ret = [kind |-> "int", num |-> 101]

\* C9: after construction and after any set_emby_server calls headers equals
\* {'X-Emby-Token': api_key} when api_key is set and the empty mapping when it
\* is not, and every request sent carries exactly those headers.
C9_HeadersFollowApiKey ==
    /\ headers = IF Truthy(api_key) THEN [k \in {"X-Emby-Token"} |-> api_key.val]
                 ELSE EmptyDict
    /\ \A i \in 1..Len(sent) :
           sent[i].headers = IF Truthy(api_key) THEN [k \in {"X-Emby-Token"} |-> api_key.val]
                             ELSE EmptyDict

NoUpdateRequest ==
    \A i \in 1..Len(sent) : sent[i].endpoint # "emby/chapter_api/update_chapters"

ChapterLacks(fields) ==
    /\ resp.status = "ok"
    /\ Has(resp.body, "chapters")
    /\ \E i \in 1..Len(resp.body["chapters"]) :
           \E f \in fields : ~Has(resp.body["chapters"][i], f)

\* a chapter lacks MarkerType, or a chapter the method would remove lacks Index
ChapterLacksFieldRead ==
    /\ resp.status = "ok"
    /\ Has(resp.body, "chapters")
    /\ \E i \in 1..Len(resp.body["chapters"]) :
           LET chapter == resp.body["chapters"][i]
           IN  \/ ~Has(chapter, "MarkerType")
               \/ /\ StartsWith(chapter["MarkerType"],
                                IF op = "update_intro" THEN <<"Intro">> ELSE <<"Credits">>)
                  /\ ~Has(chapter, "Index")

\* C10 (as amended): if the get_chapters request of update_intro or
\* update_credits raises, or its response lacks 'chapters', or a chapter lacks
\* 'MarkerType', or a chapter whose MarkerType starts with the method's prefix
\* lacks 'Index', the method returns None and has issued no update_chapters
\* request.
C10_NoUpdateAfterFailedRead ==
    (/\ op \in UpdateOps
     /\ \/ resp.status = "raise"
        \/ (resp.status = "ok" /\ ~Has(resp.body, "chapters"))
        \/ ChapterLacksFieldRead)
        => /\ Returned
           /\ ret = [kind |-> "None"]
           /\ NoUpdateRequest

\* C10 as stated: the same for a response in which any chapter lacks 'Index' or 'MarkerType'.
C10_Original ==
    (/\ op \in UpdateOps
     /\ \/ resp.status = "raise"
        \/ (resp.status = "ok" /\ ~Has(resp.body, "chapters"))
        \/ ChapterLacks({"Index", "MarkerType"}))
        => /\ Returned
           /\ ret = [kind |-> "None"]
           /\ NoUpdateRequest

C10_Witness ==
    /\ op = "update_intro"
    /\ Returned
    /\ resp.status = "ok"
    /\ Has(resp.body, "chapters")
    /\ Len(resp.body["chapters"]) = 2
    /\ DOMAIN resp.body["chapters"][1] = ChapterFields
    /\ resp.body["chapters"][2] = [MarkerType |-> <<"Intro", "End">>]
    /\ ret = [kind |-> "None"]
    /\ Len(sent) = 1

====
